---- MODULE Spec2Model ----
(***************************************************************************)
(* State-machine model of the run orchestrator (RunService), the terminal  *)
(* registry (TerminalService) and the ShellAdapter of the desktop app,     *)
(* together with the run_status / runs tables they read and write.         *)
(*                                                                         *)
(* JavaScript runs one callback at a time; an async function gives up      *)
(* control at an await that waits for I/O.  Each action below is one such  *)
(* uninterrupted stretch of a handler: from its entry (or from the         *)
(* completion of the awaited I/O) to the next await on I/O (or its return).*)
(* A database write is taken to land at the moment the awaiting code       *)
(* resumes.  The timestamps of the RunState are abstracted to the token     *)
(* Now.  Of the updated_at column of the runs table only the order matters:*)
(* the table is kept as a sequence in "ORDER BY updated_at DESC" order, and*)
(* a timestamp that was taken for a write that is still pending holds its  *)
(* place in that sequence as a mark.                                       *)
(*                                                                         *)
(* A value of type T | null | undefined is the set {} (absent) or {v}.     *)
(***************************************************************************)
EXTENDS Integers, Sequences, FiniteSets, TLC

\* ---------------------------------------------------------------- bounds
MaxCalls == 2
MaxTabs == 2

\* ------------------------------------------------------------ value sets
Projects == {"p1", "p2"}
ProjectPath(p) == IF p = "p1" THEN "/p1" ELSE "/p2"
Commands == {"c1", "c2", "c3"}
RunIds == {"r1", "r2"}
ExitCodes == {0, 1}
CallIds == 1..MaxCalls
TabIds == 1..MaxTabs
Now == "t"

None == {}
Some(v) == {v}
Get(o) == CHOOSE v \in o : TRUE
\* a ?? b
Coalesce(o, d) == IF o = None THEN d ELSE Get(o)
\* JavaScript truthiness of a string | null | undefined
Truthy(o) == o # None /\ Get(o) # ""

EmptyEnv == {}
Env1 == {<<"K", "v">>}

\* ------------------------------------------------------------ map helpers
EmptyMap == [k \in {} |-> {}]
Has(m, k) == k \in DOMAIN m
MapSet(m, k, v) == [x \in (DOMAIN m) \cup {k} |-> IF x = k THEN v ELSE m[x]]
MapDelete(m, k) == [x \in (DOMAIN m) \ {k} |-> m[x]]

VARIABLES
  states,      \* RunService.states: project id -> RunState
  processes,   \* RunService.processes: the entries <<project id, RunProcess>>
               \* of the Map
  toast,       \* RunService.toastStore: {} or {RunToastMessage}
  tabMap,      \* TerminalService.tabMap: tab id -> TerminalTab
  procs,       \* backing processes (pty or subprocess), keyed by the tab id
               \* generated for them, with their pending exit handler
  persisted,   \* table run_status: project id -> row
  runs,        \* table runs, in ORDER BY updated_at DESC order, with the
               \* marks of the timestamps taken for pending writes
  savedOrder,  \* ids of the saved configurations, latest saveRunConfig first
  calls,       \* in-flight calls of start / rememberConfiguration /
               \* loadPersistedStates: call id -> locals and position
  lastEvent    \* what the last step was: the operation, its project and,
               \* when a call returned or rejected with it, the outcome

vars == <<states, processes, toast, tabMap, procs, persisted, runs,
          savedOrder, calls, lastEvent>>

\* ----------------------------------------------------------- RunService
createIdleState(projectId) ==
  [projectId |-> projectId, status |-> "idle", lastRunId |-> None,
   lastCommand |-> None, lastArgs |-> <<>>, lastEnv |-> EmptyEnv,
   lastCwd |-> None, lastExitCode |-> None, startedAt |-> None,
   finishedAt |-> None, tabId |-> None]

\* getState: the map after the call (an absent entry is created as idle)
getStateMap(m, projectId) ==
  IF Has(m, projectId) THEN m ELSE MapSet(m, projectId, createIdleState(projectId))
getState(m, projectId) == getStateMap(m, projectId)[projectId]

\* an update that publishes a map with this state only
updateState_OnlyThis(m, state) == [p \in {state.projectId} |-> state]

updateState(m, state) == MapSet(m, state.projectId, state)

\* JSON.stringify / JSON.parse of the args and env columns
JSONstringify(v) == <<"json", v>>
JSONparse(text) == text[2]

toPersist(state) ==
  [projectId |-> state.projectId, status |-> state.status,
   lastRunId |-> state.lastRunId, lastCommand |-> state.lastCommand,
   lastArgs |-> state.lastArgs, lastEnv |-> state.lastEnv,
   lastCwd |-> state.lastCwd, lastExitCode |-> state.lastExitCode,
   startedAt |-> state.startedAt, finishedAt |-> state.finishedAt]

\* a save that writes nothing
saveRunStatus_Lost(table, status) == table

\* saveRunStatus: the run_status table after the upsert
saveRunStatus(table, status) ==
  MapSet(table, status.projectId,
         [project_id |-> status.projectId, status |-> status.status,
          last_run_id |-> status.lastRunId, last_command |-> status.lastCommand,
          last_args |-> JSONstringify(status.lastArgs),
          last_env |-> JSONstringify(status.lastEnv),
          last_cwd |-> status.lastCwd, last_exit_code |-> status.lastExitCode,
          started_at |-> status.startedAt, finished_at |-> status.finishedAt])

fromRunStatusRow(row) ==
  [projectId |-> row.project_id, status |-> row.status,
   lastRunId |-> row.last_run_id, lastCommand |-> row.last_command,
   lastArgs |-> JSONparse(row.last_args), lastEnv |-> JSONparse(row.last_env),
   lastCwd |-> row.last_cwd, lastExitCode |-> row.last_exit_code,
   startedAt |-> row.started_at, finishedAt |-> row.finished_at]

\* listRunStatuses: the rows of the run_status table as RunStatus values
listRunStatuses(table) == {fromRunStatusRow(table[p]) : p \in DOMAIN table}

\* a row of the runs table (its last_exit_code column, which nothing in the
\* run service reads, is not kept)
RunRow(run) ==
  [kind |-> "row", id |-> run.id, projectId |-> run.projectId,
   command |-> run.command, args |-> JSONstringify(run.args),
   env |-> JSONstringify(run.env), cwd |-> run.cwd]

\* a conversion that hands the stored text of args on as it is
fromRunRow_RawArgs(row) ==
  [id |-> row.id, projectId |-> row.projectId, command |-> row.command,
   args |-> row.args, env |-> JSONparse(row.env), cwd |-> row.cwd]

\* fromRunRow: a row of the runs table as a RunConfig
fromRunRow(row) ==
  [id |-> row.id, projectId |-> row.projectId, command |-> row.command,
   args |-> JSONparse(row.args), env |-> JSONparse(row.env), cwd |-> row.cwd]

\* the place of a timestamp taken now (Date.now()) for a later write
Mark(kind, id) ==
  [kind |-> kind, id |-> id, projectId |-> "", command |-> "",
   args |-> JSONstringify(<<>>), env |-> JSONstringify(EmptyEnv), cwd |-> None]
IsRow(r) == r.kind = "row"
WithoutRow(table, id) == SelectSeq(table, LAMBDA r : ~(IsRow(r) /\ r.id = id))
MarkAt(table, mark) == CHOOSE i \in 1..Len(table) : table[i] = mark
\* the table after the write the mark was taken for: `rows` (one row, or
\* none) takes the place of the mark
Stamped(table, mark, rows) ==
  LET i == MarkAt(table, mark)
      drop == IF rows = <<>> THEN "" ELSE rows[1].id
  IN WithoutRow(SubSeq(table, 1, i - 1), drop) \o rows
     \o WithoutRow(SubSeq(table, i + 1, Len(table)), drop)

\* listRuns(projectId): the project's configurations, latest updated_at first
listRuns(table, projectId) ==
  LET rows == SelectSeq(table, LAMBDA r : IsRow(r) /\ r.projectId = projectId)
  IN [i \in 1..Len(rows) |-> fromRunRow(rows[i])]

\* saveRunConfig: upsert by id, with the updatedAt the caller took at `mark`
saveRunConfig(table, mark, run) == Stamped(table, mark, <<RunRow(run)>>)

\* updateRunOutcome: UPDATE ... SET last_exit_code, updated_at WHERE id, with
\* the `finished` the exit handler took at `mark`
updateRunOutcome(table, mark, id) ==
  Stamped(table, mark, SelectSeq(table, LAMBDA r : IsRow(r) /\ r.id = id))

\* ------------------------------------------------------ resolveCommand
RunCommand(command, args, env, cwd, runId) ==
  [command |-> command, args |-> args, env |-> env, cwd |-> cwd, runId |-> runId]

\* first branch: the override command
resolveFromOverride(project, overrides) ==
  RunCommand(Get(overrides.command), Coalesce(overrides.args, <<>>),
             Coalesce(overrides.env, EmptyEnv),
             Coalesce(overrides.cwd, ProjectPath(project)), overrides.runId)

\* second branch: the last-used command of the RunState
resolveFromState(project, overrides, current) ==
  RunCommand(Get(current.lastCommand), Coalesce(overrides.args, current.lastArgs),
             Coalesce(overrides.env, current.lastEnv),
             Coalesce(overrides.cwd, Coalesce(current.lastCwd, ProjectPath(project))),
             IF overrides.runId # None THEN overrides.runId ELSE current.lastRunId)

\* third branch: runs[0] of listRuns, or null
resolveFromRuns(project, overrides, list) ==
  IF list = <<>> THEN None
  ELSE LET selected == list[1]
       IN Some(RunCommand(selected.command, Coalesce(overrides.args, selected.args),
                          Coalesce(overrides.env, selected.env),
                          Coalesce(overrides.cwd, Coalesce(selected.cwd, ProjectPath(project))),
                          IF overrides.runId # None THEN overrides.runId
                          ELSE Some(selected.id)))

\* a resolution that prefers the last-used command to the override
resolveBranch_StateFirst(overrides, current) ==
  IF Truthy(current.lastCommand) THEN "state"
  ELSE IF Truthy(overrides.command) THEN "override"
  ELSE "runs"

\* a resolution that does not look at the last-used command
resolveBranch_IgnoresState(overrides, current) ==
  IF Truthy(overrides.command) THEN "override" ELSE "runs"

\* which branch resolveCommand takes before it awaits anything
resolveBranch(overrides, current) ==
  IF Truthy(overrides.command) THEN "override"
  ELSE IF Truthy(current.lastCommand) THEN "state"
  ELSE "runs"

\* a guard that forgets the starting status
startGuard_RunningOnly(state) == state.status = "running"

\* the guard of start()
startGuard(state) == state.status \in {"starting", "running"}

\* a starting snapshot that keeps the old status
startingState_KeepsStatus(state, command) ==
  [state EXCEPT !.lastRunId = IF command.runId # None THEN command.runId
                              ELSE state.lastRunId,
                !.lastCommand = Some(command.command),
                !.lastArgs = command.args,
                !.lastEnv = command.env,
                !.lastCwd = Some(command.cwd),
                !.lastExitCode = None,
                !.startedAt = Some(Now),
                !.finishedAt = None,
                !.tabId = None]

\* `next` of start(): the starting snapshot
startingState(state, command) ==
  [state EXCEPT !.status = "starting",
                !.lastRunId = IF command.runId # None THEN command.runId
                              ELSE state.lastRunId,
                !.lastCommand = Some(command.command),
                !.lastArgs = command.args,
                !.lastEnv = command.env,
                !.lastCwd = Some(command.cwd),
                !.lastExitCode = None,
                !.startedAt = Some(Now),
                !.finishedAt = None,
                !.tabId = None]

\* `runningState` of start()
runningState(next, tabId) ==
  [next EXCEPT !.status = "running", !.tabId = Some(tabId)]

\* the Map RunService.processes, as the set of its entries
processesHas(registry, projectId) == \E e \in registry : e[1] = projectId
processesGet(registry, projectId) ==
  (CHOOSE e \in registry : e[1] = projectId)[2]
processesDelete(registry, projectId) == {e \in registry : e[1] # projectId}
\* a set that adds the entry and keeps the one the key already has
processesSet_KeepsOld(registry, projectId, runProcess) ==
  registry \cup {<<projectId, runProcess>>}
\* Map.set: the entry of the key is added or replaced
processesSet(registry, projectId, runProcess) ==
  processesDelete(registry, projectId) \cup {<<projectId, runProcess>>}
\* a stop that leaves the flag as it is
requestStop_Forgets(registry, projectId) == registry
\* line 371: process.stopRequested = true, on the RunProcess of the entry
requestStop(registry, projectId) ==
  {IF e[1] = projectId THEN <<e[1], [e[2] EXCEPT !.stopRequested = TRUE]>> ELSE e
     : e \in registry}

\* ------------------------------------------------------------ inputs
NoOverrides ==
  [command |-> None, args |-> None, env |-> None, cwd |-> None, runId |-> None]
\* the overrides start() is called with
OverrideSet ==
  { NoOverrides,
    [NoOverrides EXCEPT !.command = Some("c3")] }
\* the configurations the run modal and the run editor save for a project
ConfigSet(p) ==
  { [id |-> "r1", projectId |-> p, command |-> "c1", args |-> <<>>,
     env |-> EmptyEnv, cwd |-> None],
    [id |-> "r2", projectId |-> p, command |-> "c2", args |-> <<"a">>,
     env |-> Env1, cwd |-> Some("/w")] }
\* what a process reports when it ends: a code, or none
ExitReports == {None} \cup {Some(c) : c \in ExitCodes}

Event(op, project, result) == [op |-> op, project |-> project, result |-> result]
\* the return of an operation that was given the project list
ListEvent(op, projects) ==
  [op |-> op, project |-> "", result |-> "returned", projects |-> projects]
\* the return of an operation of the terminal registry on the tab id `tab`
TabEvent(op, tab, result) ==
  [op |-> op, project |-> "", result |-> result, tab |-> tab]
\* the return of resize(id, columns, rows)
ResizeEvent(tab, columns, rows) ==
  [op |-> "resize", project |-> "", result |-> "returned", tab |-> tab,
   columns |-> columns, rows |-> rows]
\* a step inside a call: nothing returns
Step == Event("step", "", "")

\* the columns and rows resize() is called with
Dims == {-1, 0, 2}

\* -------------------------------------------------------- bookkeeping
FreeCalls == CallIds \ DOMAIN calls
\* a new call can be made: at any time when calls may overlap, otherwise
\* only when no call is in flight
CanCall(overlap) == IF overlap THEN FreeCalls # {} ELSE calls = EmptyMap
NewCall == CHOOSE c \in FreeCalls : \A d \in FreeCalls : c <= d

\* tab ids something still refers to; crypto.randomUUID() never returns one
UsedTabs ==
  DOMAIN tabMap \cup DOMAIN procs
  \cup UNION {states[p].tabId : p \in DOMAIN states}
  \cup {e[2].tabId : e \in processes}
  \cup {t.tabId : t \in toast}
  \cup UNION {calls[c].tab : c \in {d \in DOMAIN calls : calls[d].kind = "start"}}
FreeTabs == TabIds \ UsedTabs
NewTab == CHOOSE t \in FreeTabs : \A u \in FreeTabs : t <= u

\* a process record is forgotten once the process has ended, its exit
\* handler (if any) has finished and no start() still holds its tab
Prune(ps, cs) ==
  LET held == UNION {cs[c].tab : c \in {d \in DOMAIN cs : cs[d].kind = "start"}}
      keep == {t \in DOMAIN ps : ps[t].alive \/ ps[t].exit # None \/ t \in held}
  IN  [t \in keep |-> ps[t]]

Init ==
  /\ states = EmptyMap
  /\ processes = {}
  /\ toast = None
  /\ tabMap = EmptyMap
  /\ procs = EmptyMap
  /\ persisted = EmptyMap
  /\ runs = <<>>
  /\ savedOrder = <<>>
  /\ calls = EmptyMap
  /\ lastEvent = Event("init", "", "")

\* ------------------------------------------------------------- start()
\* lines 205-214: entry of start() up to the await of resolveCommand
StartCall(p, overrides, overlap) ==
  LET m == getStateMap(states, p)
      state == m[p]
      branch == resolveBranch(overrides, state)
      command == IF branch = "override" THEN Some(resolveFromOverride(p, overrides))
                 ELSE IF branch = "state" THEN Some(resolveFromState(p, overrides, state))
                 ELSE None
  IN
  /\ states' = m
  /\ IF startGuard(state)
     THEN /\ calls' = calls
          /\ lastEvent' = Event("start", p, "RunAlreadyInProgress")
     ELSE /\ CanCall(overlap)
          /\ calls' = MapSet(calls, NewCall,
                 [kind |-> "start", pc |-> IF branch = "runs" THEN "listRuns" ELSE "resolved",
                  project |-> p, overrides |-> overrides, state |-> state,
                  command |-> command, tab |-> None, fallback |-> FALSE,
                  spawns |-> <<>>])
          /\ lastEvent' = Step
  /\ UNCHANGED <<processes, toast, tabMap, procs, persisted, runs, savedOrder>>

\* lines 211-232: resolveCommand has resolved (after listRuns where it needed
\* it); start() throws MissingRunConfiguration or calls saveRunStatus(next)
StartResolved(c) ==
  /\ Has(calls, c) /\ calls[c].kind = "start"
  /\ calls[c].pc \in {"listRuns", "resolved"}
  /\ LET call == calls[c]
         command == IF call.pc = "listRuns"
                    THEN resolveFromRuns(call.project, call.overrides,
                                         listRuns(runs, call.project))
                    ELSE call.command
     IN IF command = None
        THEN /\ calls' = MapDelete(calls, c)
             /\ lastEvent' = Event("start", call.project, "MissingRunConfiguration")
        ELSE /\ calls' = MapSet(calls, c, [call EXCEPT !.pc = "saveStarting",
                                                       !.command = command])
             /\ lastEvent' = Step
  /\ UNCHANGED <<states, processes, toast, tabMap, procs, persisted, runs, savedOrder>>

\* TerminalService.createTabWithProcess, after the spawn: the tab is registered
createTabWithProcess(tabs, tabId, projectId, kind, pty, title) ==
  MapSet(tabs, tabId, [projectId |-> projectId, kind |-> kind, pty |-> pty,
                       title |-> title])

\* service.ts lines 241 and 252: the title of a run tab, with the project's
\* id standing for its name
RunTitle(projectId) == [text |-> "Run: ", name |-> projectId]

\* a backing process that has just been spawned for a run
SpawnedProcess(projectId, backend, runId) ==
  [project |-> projectId, backend |-> backend, alive |-> TRUE,
   wired |-> TRUE, listening |-> FALSE, runId |-> runId, killedBy |-> {},
   received |-> FALSE, size |-> None, report |-> None, exit |-> None]

\* lines 232-247 and 289-295: the starting snapshot is saved and published,
\* createRunTab spawns the PTY; on success the tab is registered and
\* saveRunStatus(runningState) is called, on a throw the catch block starts
\* the subprocess spawn of the fallback
StartSavedStarting(c, ptyOk) ==
  /\ Has(calls, c) /\ calls[c].kind = "start" /\ calls[c].pc = "saveStarting"
  /\ LET call == calls[c]
         next == startingState(call.state, Get(call.command))
     IN
     /\ persisted' = saveRunStatus(persisted, toPersist(next))
     /\ states' = updateState(states, next)
     /\ IF ptyOk
        THEN /\ FreeTabs # {}
             /\ procs' = MapSet(procs, NewTab,
                          SpawnedProcess(call.project, "pty", Get(call.command).runId))
             /\ tabMap' = createTabWithProcess(tabMap, NewTab, call.project, "run", "pty",
                                                 RunTitle(call.project))
             /\ calls' = MapSet(calls, c, [call EXCEPT !.pc = "saveRunning",
                                                       !.tab = Some(NewTab),
                                                       !.spawns = Append(@, "pty")])
        ELSE /\ calls' = MapSet(calls, c, [call EXCEPT !.pc = "shellSpawn",
                                                       !.fallback = TRUE,
                                                       !.spawns = Append(@, "pty")])
             /\ UNCHANGED <<procs, tabMap>>
     /\ lastEvent' = Step
  /\ UNCHANGED <<processes, toast, runs, savedOrder>>

\* a start() whose catch block were a loop: a subprocess spawn that throws
\* is attempted again
StartShellSpawn_Retries(c, shellOk) ==
  /\ Has(calls, c) /\ calls[c].kind = "start" /\ calls[c].pc = "shellSpawn"
  /\ ~shellOk
  /\ calls' = MapSet(calls, c, [calls[c] EXCEPT !.spawns = Append(@, "shell")])
  /\ lastEvent' = Step
  /\ UNCHANGED <<states, processes, toast, tabMap, procs, persisted, runs, savedOrder>>

\* lines 251-295: cmd.spawn() of the fallback has settled; on success the
\* ShellAdapter is built, the tab is registered and saveRunStatus(runningState)
\* is called; on failure start() rejects. spawns lists the spawn attempts of
\* the call (lines 240 and 251: the two calls of createRunTab)
StartShellSpawn(c, shellOk) ==
  /\ Has(calls, c) /\ calls[c].kind = "start" /\ calls[c].pc = "shellSpawn"
  /\ LET call == calls[c]
     IN IF shellOk
        THEN /\ FreeTabs # {}
             /\ procs' = MapSet(procs, NewTab,
                          SpawnedProcess(call.project, "shell", Get(call.command).runId))
             /\ tabMap' = createTabWithProcess(tabMap, NewTab, call.project, "run", "shell",
                                                 RunTitle(call.project))
             /\ calls' = MapSet(calls, c, [call EXCEPT !.pc = "saveRunning",
                                                       !.tab = Some(NewTab),
                                                       !.spawns = Append(@, "shell")])
             /\ lastEvent' = Step
        ELSE /\ calls' = MapDelete(calls, c)
             /\ lastEvent' = Event("start", call.project, "SpawnFailed")
             /\ UNCHANGED <<procs, tabMap>>
  /\ UNCHANGED <<states, processes, toast, persisted, runs, savedOrder>>

\* the RunProcess start() registers
RunProcess(tabId, fallback) ==
  [tabId |-> tabId, stopRequested |-> FALSE,
   type |-> IF fallback THEN "shell" ELSE "pty"]

\* lines 295-362: the running snapshot is saved and published, the RunProcess
\* is registered, the exit handler is subscribed and start() returns the tab id
StartSavedRunning(c) ==
  /\ Has(calls, c) /\ calls[c].kind = "start" /\ calls[c].pc = "saveRunning"
  /\ LET call == calls[c]
         tabId == Get(call.tab)
         next == startingState(call.state, Get(call.command))
         running == runningState(next, tabId)
     IN
     /\ persisted' = saveRunStatus(persisted, toPersist(running))
     /\ states' = updateState(states, running)
     /\ processes' = processesSet(processes, call.project, RunProcess(tabId, call.fallback))
     /\ calls' = MapDelete(calls, c)
     /\ procs' = Prune([procs EXCEPT ![tabId].listening = TRUE],
                       MapDelete(calls, c))
     /\ lastEvent' = Event("start", call.project, "returned")
  /\ UNCHANGED <<toast, tabMap, runs, savedOrder>>

\* ------------------------------------------------- exit of a process
\* ShellAdapter.closeHandler: the exit code handed to the exit listeners
closeHandler(payloadCode) == IF payloadCode # None THEN payloadCode ELSE Some(0)

\* the exitCode the orchestrator's listener is called with
DeliveredCode(backend, report) ==
  IF backend = "shell" THEN closeHandler(report) ELSE report

\* a classification that takes an unknown exit code for a success
exitStatus_NullSucceeds(stopRequested, code) ==
  IF stopRequested THEN "stopped"
  ELSE IF code # None /\ code # Some(0) THEN "failed"
  ELSE "succeeded"

\* lines 328-333 of the exit handler
exitStatus(stopRequested, code) ==
  IF stopRequested THEN "stopped"
  ELSE IF code = None \/ code # Some(0) THEN "failed"
  ELSE "succeeded"

\* lines 324-342: what the exit handler computes before it awaits
exitHandler(m, registry, projectId, tabId, exitCode) ==
  LET stopRequested == IF processesHas(registry, projectId)
                       THEN processesGet(registry, projectId).stopRequested ELSE FALSE
      code == exitCode
      status == exitStatus(stopRequested, code)
  IN [pc |-> "saveFinal", stopRequested |-> stopRequested, code |-> code,
      finalState |-> [getState(m, projectId) EXCEPT
                         !.status = status, !.lastExitCode = code,
                         !.finishedAt = Some(Now), !.tabId = Some(tabId)]]

\* the backing process of tab t ends and reports `report`; a subscribed
\* listener of the orchestrator runs up to its await of saveRunStatus
ProcExit(t, report) ==
  /\ Has(procs, t) /\ procs[t].alive
  /\ LET proc == procs[t]
         heard == proc.listening /\ proc.wired
     IN
     /\ states' = IF heard THEN getStateMap(states, proc.project) ELSE states
     /\ procs' = Prune(
          [procs EXCEPT ![t].alive = FALSE,
                        ![t].report = report,
                        ![t].exit = IF heard
                                    THEN Some(exitHandler(states, processes, proc.project, t,
                                                          DeliveredCode(proc.backend, report)))
                                    ELSE None],
          calls)
     /\ runs' = IF heard /\ proc.runId # None
                THEN <<Mark("exit", ToString(t))>> \o runs ELSE runs
     /\ lastEvent' = Step
  /\ UNCHANGED <<processes, toast, tabMap, persisted, savedOrder, calls>>

\* lines 352-359
failureToast(current, finalState, code) ==
  IF finalState.status = "failed"
  THEN Some([projectId |-> finalState.projectId, tabId |-> Get(finalState.tabId),
             code |-> code])
  ELSE current

\* lines 344-359: the final snapshot is saved and published and the
\* RunProcess of the project is removed; without a runId the handler goes on
\* to the notification, with one it awaits updateRunOutcome
ExitSaved(t) ==
  /\ Has(procs, t) /\ procs[t].exit # None /\ Get(procs[t].exit).pc = "saveFinal"
  /\ LET proc == procs[t]
         h == Get(proc.exit)
     IN
     /\ persisted' = saveRunStatus(persisted, toPersist(h.finalState))
     /\ states' = updateState(states, h.finalState)
     /\ processes' = processesDelete(processes, proc.project)
     /\ IF proc.runId # None
        THEN /\ procs' = [procs EXCEPT ![t].exit = Some([h EXCEPT !.pc = "updateRunOutcome"])]
             /\ toast' = toast
        ELSE /\ procs' = Prune([procs EXCEPT ![t].exit = None], calls)
             /\ toast' = failureToast(toast, h.finalState, h.code)
     /\ lastEvent' = IF proc.runId # None THEN Step
                      ELSE Event("exitHandler", proc.project, "returned")
  /\ UNCHANGED <<tabMap, runs, savedOrder, calls>>

\* lines 348-359: updateRunOutcome is done, then the notification
ExitOutcome(t) ==
  /\ Has(procs, t) /\ procs[t].exit # None
  /\ Get(procs[t].exit).pc = "updateRunOutcome"
  /\ LET proc == procs[t]
         h == Get(proc.exit)
     IN
     /\ runs' = updateRunOutcome(runs, Mark("exit", ToString(t)), Get(proc.runId))
     /\ toast' = failureToast(toast, h.finalState, h.code)
     /\ procs' = Prune([procs EXCEPT ![t].exit = None], calls)
     /\ lastEvent' = Event("exitHandler", proc.project, "returned")
  /\ UNCHANGED <<states, processes, tabMap, persisted, savedOrder, calls>>

\* ------------------------------------------ a save of the status fails
\* line 232: saveRunStatus(next) rejects; nothing is around the await, so
\* start() rejects before updateState(next)
StartSaveStartingFailed(c) ==
  /\ Has(calls, c) /\ calls[c].kind = "start" /\ calls[c].pc = "saveStarting"
  /\ calls' = MapDelete(calls, c)
  /\ lastEvent' = Event("start", calls[c].project, "SaveFailed")
  /\ UNCHANGED <<states, processes, toast, tabMap, procs, persisted, runs, savedOrder>>

\* line 295: saveRunStatus(runningState) rejects; start() rejects before
\* updateState(runningState), with the tab created and the process running,
\* no RunProcess registered and no exit handler subscribed
StartSaveRunningFailed(c) ==
  /\ Has(calls, c) /\ calls[c].kind = "start" /\ calls[c].pc = "saveRunning"
  /\ calls' = MapDelete(calls, c)
  /\ procs' = Prune(procs, MapDelete(calls, c))
  /\ lastEvent' = Event("start", calls[c].project, "SaveFailed")
  /\ UNCHANGED <<states, processes, toast, tabMap, persisted, runs, savedOrder>>

\* line 344: saveRunStatus(finalState) rejects; the exit handler ends there,
\* before updateState(finalState) and processes.delete
ExitSaveFailed(t) ==
  /\ Has(procs, t) /\ procs[t].exit # None /\ Get(procs[t].exit).pc = "saveFinal"
  /\ procs' = Prune([procs EXCEPT ![t].exit = None], calls)
  /\ lastEvent' = Event("exitHandler", procs[t].project, "SaveFailed")
  /\ UNCHANGED <<states, processes, toast, tabMap, persisted, runs, savedOrder, calls>>

\* ---------------------------------------------------------------- stop()
\* a kill sent to the process of tab t, which it gets if it is still running
Kill(ps, t, by) ==
  IF Has(ps, t) /\ ps[t].alive
  THEN [ps EXCEPT ![t].killedBy = ps[t].killedBy \cup {by}]
  ELSE ps

\* lines 365-373 (and the kill closure, 302-318)
Stop(p) ==
  /\ IF processesHas(processes, p)
     THEN /\ processes' = requestStop(processes, p)
          /\ procs' = Kill(procs, processesGet(processes, p).tabId, "stop")
          /\ lastEvent' = Event("stop", p, "killed")
     ELSE /\ UNCHANGED <<processes, procs>>
          /\ lastEvent' = Event("stop", p, "noop")
  /\ UNCHANGED <<states, toast, tabMap, persisted, runs, savedOrder, calls>>

\* ------------------------------------------------ rememberConfiguration()
\* line 376: the call of saveRunConfig, with a configuration the caller has
\* just stamped (App.svelte, handleRunModalSubmit)
RememberCall(p, config, overlap) ==
  /\ CanCall(overlap)
  /\ calls' = MapSet(calls, NewCall,
        [kind |-> "remember", pc |-> "saveRunConfig", project |-> p,
         config |-> config, state |-> None, next |-> None])
  /\ runs' = <<Mark("call", ToString(NewCall))>> \o runs
  /\ lastEvent' = Step
  /\ UNCHANGED <<states, processes, toast, tabMap, procs, persisted, savedOrder>>

\* a `next` that also resets the status
rememberedState_ResetsStatus(state, projectId, config) ==
  [state EXCEPT !.status = "idle",
                !.lastRunId = Some(config.id),
                !.lastCommand = Some(config.command),
                !.lastArgs = config.args,
                !.lastEnv = config.env,
                !.lastCwd = Some(Coalesce(config.cwd, ProjectPath(projectId)))]

\* lines 378-386
rememberedState(state, projectId, config) ==
  [state EXCEPT !.lastRunId = Some(config.id),
                !.lastCommand = Some(config.command),
                !.lastArgs = config.args,
                !.lastEnv = config.env,
                !.lastCwd = Some(Coalesce(config.cwd, ProjectPath(projectId)))]

\* lines 376-387: the configuration is saved; `next` is built from the
\* current state and saveRunStatus(next) is called
RememberSavedConfig(c) ==
  /\ Has(calls, c) /\ calls[c].kind = "remember" /\ calls[c].pc = "saveRunConfig"
  /\ LET call == calls[c]
     IN
     /\ runs' = saveRunConfig(runs, Mark("call", ToString(c)), call.config)
     /\ savedOrder' = <<call.config.id>>
                      \o SelectSeq(savedOrder, LAMBDA id : id # call.config.id)
     /\ states' = getStateMap(states, call.project)
     /\ calls' = MapSet(calls, c,
          [call EXCEPT !.pc = "saveRunStatus",
                       !.state = Some(getState(states, call.project)),
                       !.next = Some(rememberedState(getState(states, call.project),
                                                     call.project, call.config))])
     /\ lastEvent' = Step
  /\ UNCHANGED <<processes, toast, tabMap, procs, persisted>>

\* lines 387-388
RememberSavedStatus(c) ==
  /\ Has(calls, c) /\ calls[c].kind = "remember" /\ calls[c].pc = "saveRunStatus"
  /\ LET call == calls[c]
     IN
     /\ persisted' = saveRunStatus(persisted, toPersist(Get(call.next)))
     /\ states' = updateState(states, Get(call.next))
     /\ calls' = MapDelete(calls, c)
     /\ lastEvent' = Event("rememberConfiguration", call.project, "returned")
  /\ UNCHANGED <<processes, toast, tabMap, procs, runs, savedOrder>>

\* the run editor of the app stamps a configuration and saves it (saveRun)
SaveRun(p, config) ==
  /\ runs' = saveRunConfig(<<Mark("editor", "")>> \o runs, Mark("editor", ""), config)
  /\ savedOrder' = <<config.id>> \o SelectSeq(savedOrder, LAMBDA id : id # config.id)
  /\ lastEvent' = Event("saveRun", p, "returned")
  /\ UNCHANGED <<states, processes, toast, tabMap, procs, persisted, calls>>

\* ------------------------------------- loadPersistedStates / syncProjects
LoadCall(projects, overlap) ==
  /\ CanCall(overlap)
  /\ calls' = MapSet(calls, NewCall,
        [kind |-> "load", pc |-> "listRunStatuses", projects |-> projects])
  /\ lastEvent' = Step
  /\ UNCHANGED <<states, processes, toast, tabMap, procs, persisted, runs, savedOrder>>

\* lines 153-170
loadedStates(table, projects) ==
  [p \in projects |->
     IF Has(table, p)
     THEN [projectId |-> fromRunStatusRow(table[p]).projectId,
           status |-> fromRunStatusRow(table[p]).status,
           lastRunId |-> fromRunStatusRow(table[p]).lastRunId,
           lastCommand |-> fromRunStatusRow(table[p]).lastCommand,
           lastArgs |-> fromRunStatusRow(table[p]).lastArgs,
           lastEnv |-> fromRunStatusRow(table[p]).lastEnv,
           lastCwd |-> fromRunStatusRow(table[p]).lastCwd,
           lastExitCode |-> fromRunStatusRow(table[p]).lastExitCode,
           startedAt |-> fromRunStatusRow(table[p]).startedAt,
           finishedAt |-> fromRunStatusRow(table[p]).finishedAt,
           tabId |-> None]
     ELSE createIdleState(p)]

LoadDone(c) ==
  /\ Has(calls, c) /\ calls[c].kind = "load"
  /\ states' = loadedStates(persisted, calls[c].projects)
  /\ calls' = MapDelete(calls, c)
  /\ lastEvent' = ListEvent("loadPersistedStates", calls[c].projects)
  /\ UNCHANGED <<processes, toast, tabMap, procs, persisted, runs, savedOrder>>

\* a sync that adds the missing states and drops none
syncedStates_DropsNone(m, projects) ==
  [p \in projects \cup DOMAIN m |-> IF Has(m, p) THEN m[p] ELSE createIdleState(p)]

\* lines 173-190
syncedStates(m, projects) ==
  [p \in projects |-> IF Has(m, p) THEN m[p] ELSE createIdleState(p)]

\* a sync that also deregisters the RunProcess of a dropped project
SyncProjects_Deregisters(projects) ==
  /\ states' = syncedStates(states, projects)
  /\ processes' = {e \in processes : e[1] \in projects}
  /\ lastEvent' = ListEvent("syncProjects", projects)
  /\ UNCHANGED <<toast, tabMap, procs, persisted, runs, savedOrder, calls>>

SyncProjects(projects) ==
  /\ states' = syncedStates(states, projects)
  /\ lastEvent' = ListEvent("syncProjects", projects)
  /\ UNCHANGED <<processes, toast, tabMap, procs, persisted, runs, savedOrder, calls>>

\* ------------------------------------------------- the rest of the UI
\* ------------------------------------------ interactive terminal tabs
\* TerminalService.countProjectTabs
countProjectTabs(tabs, projectId) ==
  Cardinality({t \in DOMAIN tabs : tabs[t].projectId = projectId})

\* the title `${project.name} #${labelIndex}`, with the project's id standing
\* for its name
TabTitle(projectId, labelIndex) == [name |-> projectId, ordinal |-> labelIndex]

\* createTab(projectId) up to its await of getProject
CreateTabCall(p, overlap) ==
  /\ CanCall(overlap)
  /\ calls' = MapSet(calls, NewCall,
        [kind |-> "createTab", pc |-> "resolve", project |-> p, title |-> None])
  /\ lastEvent' = Step
  /\ UNCHANGED <<states, processes, toast, tabMap, procs, persisted, runs, savedOrder>>

\* getProject and resolveShell have resolved: the title is derived from the
\* number of tabs of the project and createTabWithProcess awaits the spawn
CreateTabResolved(c) ==
  /\ Has(calls, c) /\ calls[c].kind = "createTab" /\ calls[c].pc = "resolve"
  /\ calls' = MapSet(calls, c,
        [calls[c] EXCEPT !.pc = "spawn",
           !.title = Some(TabTitle(calls[c].project,
                                   countProjectTabs(tabMap, calls[c].project) + 1))])
  /\ lastEvent' = Step
  /\ UNCHANGED <<states, processes, toast, tabMap, procs, persisted, runs, savedOrder>>

\* a createTabWithProcess that registers a tab although the spawn threw
CreateTabSpawned_AddsAnyway(c, ok) ==
  /\ Has(calls, c) /\ calls[c].kind = "createTab" /\ calls[c].pc = "spawn"
  /\ FreeTabs # {}
  /\ tabMap' = createTabWithProcess(tabMap, NewTab, calls[c].project, "shell", "pty",
                                    Get(calls[c].title))
  /\ procs' = IF ok THEN MapSet(procs, NewTab, SpawnedProcess(calls[c].project, "pty", None))
                    ELSE procs
  /\ calls' = MapDelete(calls, c)
  /\ lastEvent' = Event("createTab", calls[c].project,
                        IF ok THEN "returned" ELSE "SpawnFailed")
  /\ UNCHANGED <<states, processes, toast, persisted, runs, savedOrder>>

\* createTabWithProcess lines 84-125: the spawn has settled; the tab is
\* registered with its process, or the exception of the spawn leaves
\* createTab and nothing is registered
CreateTabSpawned(c, ok) ==
  /\ Has(calls, c) /\ calls[c].kind = "createTab" /\ calls[c].pc = "spawn"
  /\ IF ok
     THEN /\ FreeTabs # {}
          /\ tabMap' = createTabWithProcess(tabMap, NewTab, calls[c].project,
                                            "shell", "pty", Get(calls[c].title))
          /\ procs' = MapSet(procs, NewTab, SpawnedProcess(calls[c].project, "pty", None))
          /\ lastEvent' = Event("createTab", calls[c].project, "returned")
     ELSE /\ UNCHANGED <<tabMap, procs>>
          /\ lastEvent' = Event("createTab", calls[c].project, "SpawnFailed")
  /\ calls' = MapDelete(calls, c)
  /\ UNCHANGED <<states, processes, toast, persisted, runs, savedOrder>>

\* a disposal that leaves the tab in the registry
Dispose_KeepsTab(t) ==
  /\ procs' = IF Has(tabMap, t) THEN Kill(procs, t, "dispose") ELSE procs
  /\ lastEvent' = TabEvent("dispose", t, "returned")
  /\ UNCHANGED <<states, processes, toast, tabMap, persisted, runs, savedOrder, calls>>

\* TerminalService.dispose(id): the wiring is unsubscribed (for a fallback
\* run this includes ShellAdapter.dispose, which drops every exit listener),
\* the process is sent a kill and the tab is removed
Dispose(t) ==
  /\ IF Has(tabMap, t)
     THEN /\ tabMap' = MapDelete(tabMap, t)
          /\ procs' = IF Has(procs, t)
                      THEN [Kill(procs, t, "dispose") EXCEPT
                              ![t].wired = procs[t].backend # "shell",
                              ![t].listening = procs[t].listening /\ procs[t].backend # "shell"]
                      ELSE procs
     ELSE UNCHANGED <<tabMap, procs>>
  /\ lastEvent' = TabEvent("dispose", t, "returned")
  /\ UNCHANGED <<states, processes, toast, persisted, runs, savedOrder, calls>>

\* TerminalService.write(id, data): nothing for an unknown id, otherwise
\* tab.pty.write(data) with nothing around it. A running process receives the
\* data. A write to a PTY that has ended (write-after-close) throws or not,
\* as the backend decides; the write of the ShellAdapter discards the promise
\* of child.write and never throws
Write(t, throws) ==
  /\ IF ~Has(tabMap, t)
     THEN /\ procs' = procs
          /\ lastEvent' = TabEvent("write", t, "returned")
     ELSE IF Has(procs, t) /\ procs[t].alive
     THEN /\ procs' = [procs EXCEPT ![t].received = TRUE]
          /\ lastEvent' = TabEvent("write", t, "returned")
     ELSE /\ procs' = procs
          /\ lastEvent' = TabEvent("write", t,
                 IF throws /\ tabMap[t].pty = "pty" THEN "threw" ELSE "returned")
  /\ UNCHANGED <<states, processes, toast, tabMap, persisted, runs, savedOrder, calls>>

\* a resize that is passed on whatever the dimensions are
resizeReaches_Always(columns, rows) == TRUE

\* line 220: the dimensions with which resize() calls tab.pty.resize
resizeReaches(columns, rows) == columns > 0 /\ rows > 0

\* TerminalService.resize(id, columns, rows)
Resize(t, columns, rows) ==
  /\ procs' = IF Has(tabMap, t) /\ resizeReaches(columns, rows) /\ Has(procs, t)
              THEN [procs EXCEPT ![t].size = Some(<<columns, rows>>)]
              ELSE procs
  /\ lastEvent' = ResizeEvent(t, columns, rows)
  /\ UNCHANGED <<states, processes, toast, tabMap, persisted, runs, savedOrder, calls>>

\* RunButton.svelte line 16: the label, also the start of the aria-label
RunButtonLabel(status) == IF status = "running" THEN "Stop" ELSE "Run"

\* a button without the spinner branch
RunButtonText_NoSpinner(status) == RunButtonLabel(status)

\* RunButton.svelte line 37: "Starting" followed by the ellipsis character
\* U+2026, written here with three dots
StartingText == "Starting..."

\* RunButton.svelte lines 14 and 35-43: the text the button shows
RunButtonText(status) ==
  IF status = "starting" THEN StartingText ELSE RunButtonLabel(status)

\* what a rendered RunButton was given and shows
ButtonEvent(p, status, text) ==
  [op |-> "RunButton", project |-> p, result |-> "rendered",
   status |-> status, text |-> text]

\* App.svelte renders the RunButton of project p with the status of
\* getRunState(p)
Render(p) ==
  /\ lastEvent' = ButtonEvent(p, getState(states, p).status,
                              RunButtonText(getState(states, p).status))
  /\ UNCHANGED <<states, processes, toast, tabMap, procs, persisted, runs,
                 savedOrder, calls>>

\* the application is closed and opened again: the RunService and the
\* TerminalService of the new session are constructed empty and know no
\* process, tab or call of the old one; the database is what it was
Restart ==
  /\ states' = EmptyMap
  /\ processes' = {}
  /\ toast' = None
  /\ tabMap' = EmptyMap
  /\ procs' = EmptyMap
  /\ calls' = EmptyMap
  /\ lastEvent' = Event("restart", "", "")
  /\ UNCHANGED <<persisted, runs, savedOrder>>

DismissToast ==
  /\ toast' = None
  /\ lastEvent' = Event("dismissToast", "", "returned")
  /\ UNCHANGED <<states, processes, tabMap, procs, persisted, runs, savedOrder, calls>>

\* ------------------------------------------------------- specification
\* start() and the exit of a run's process, for the projects PS, the
\* overrides OVS, the outcomes PTY of the PTY spawn and the exit reports
\* REPORTS; calls overlap or are made one at a time
Lifecycle(PS, OVS, PTY, REPORTS, overlap) ==
  \/ \E p \in PS, overrides \in OVS : StartCall(p, overrides, overlap)
  \/ \E c \in CallIds : StartResolved(c)
  \/ \E c \in CallIds, ptyOk \in PTY : StartSavedStarting(c, ptyOk)
  \/ \E c \in CallIds : StartSavedRunning(c)
  \/ \E t \in TabIds, report \in REPORTS : ProcExit(t, report)
  \/ \E t \in TabIds : ExitSaved(t)

\* stop()
Stopping(PS) ==
  \E p \in PS : Stop(p)

\* the fallback of start() to a subprocess
Fallback ==
  \E c \in CallIds, shellOk \in BOOLEAN : StartShellSpawn(c, shellOk)

\* the exit handler of a run that is tied to a saved configuration
Outcome ==
  \E t \in TabIds : ExitOutcome(t)

\* rememberConfiguration()
Remember(PS, overlap) ==
  \/ \E p \in PS : \E config \in ConfigSet(p) : RememberCall(p, config, overlap)
  \/ \E c \in CallIds : RememberSavedConfig(c)
  \/ \E c \in CallIds : RememberSavedStatus(c)

\* the run editor
Editor(PS) ==
  \E p \in PS : \E config \in ConfigSet(p) : SaveRun(p, config)

\* loadPersistedStates()
Load(PS, overlap) ==
  \/ \E projects \in SUBSET PS : LoadCall(projects, overlap)
  \/ \E c \in CallIds : LoadDone(c)

\* syncProjects()
Sync(PS) ==
  \E projects \in SUBSET PS : SyncProjects(projects)

\* the database rejects a save of the status
SaveFailure ==
  \/ \E c \in CallIds : StartSaveStartingFailed(c)
  \/ \E c \in CallIds : StartSaveRunningFailed(c)
  \/ \E t \in TabIds : ExitSaveFailed(t)

\* createTab(): a new interactive terminal tab
Tabs(PS, overlap) ==
  \/ \E p \in PS : CreateTabCall(p, overlap)
  \/ \E c \in CallIds : CreateTabResolved(c)
  \/ \E c \in CallIds, ok \in BOOLEAN : CreateTabSpawned(c, ok)

\* closing a terminal tab, dismissing the notification
Ui ==
  \/ \E t \in TabIds : Dispose(t)
  \/ DismissToast

\* typing into a terminal tab and resizing it
Typing ==
  \/ \E t \in TabIds, throws \in BOOLEAN : Write(t, throws)
  \/ \E t \in TabIds, columns \in Dims, rows \in Dims : Resize(t, columns, rows)

\* runs of one project, started with an override command or repeated, with
\* overlapping calls
Next ==
  \/ Lifecycle({"p1"}, OverrideSet, BOOLEAN, ExitReports, TRUE)
  \/ Fallback
  \/ Stopping({"p1"})

Spec == Init /\ [][Next]_vars

\* one project with saved and remembered configurations: calls are made one
\* at a time, the PTY spawn succeeds, the runs end with the code 0
NextConfig ==
  \/ Lifecycle({"p1"}, OverrideSet, {TRUE}, {Some(0)}, FALSE)
  \/ Outcome
  \/ Remember({"p1"}, FALSE)
  \/ Editor({"p1"})

SpecConfig == Init /\ [][NextConfig]_vars

\* one project with configurations saved in the run editor, while the
\* project list changes
NextResolve ==
  \/ Lifecycle({"p1"}, OverrideSet, {TRUE}, {Some(0)}, FALSE)
  \/ Outcome
  \/ Editor({"p1"})
  \/ Sync({"p1"})

SpecResolve == Init /\ [][NextResolve]_vars

\* the project list is loaded and synced while one project is run with an
\* override command
NextLoad ==
  \/ Lifecycle({"p1"}, {[NoOverrides EXCEPT !.command = Some("c3")]},
               {TRUE}, {Some(0)}, TRUE)
  \/ Load(Projects, TRUE)
  \/ Sync(Projects)

SpecLoad == Init /\ [][NextLoad]_vars

\* runs of one project on either backend, one call at a time, with the
\* notification dismissed and terminal tabs closed at any time
NextToast ==
  \/ Lifecycle({"p1"}, {[NoOverrides EXCEPT !.command = Some("c3")]},
               BOOLEAN, ExitReports, FALSE)
  \/ Fallback
  \/ Stopping({"p1"})
  \/ Ui

SpecToast == Init /\ [][NextToast]_vars

\* two projects: both are run with an override command and stopped, with
\* overlapping calls, and a configuration is remembered for one of them
NextTwo ==
  \/ Lifecycle(Projects, {[NoOverrides EXCEPT !.command = Some("c3")]},
               {TRUE}, {Some(0)}, TRUE)
  \/ Stopping(Projects)
  \/ \E config \in {cf \in ConfigSet("p2") : cf.id = "r1"} :
       RememberCall("p2", config, FALSE)
  \/ \E c \in CallIds : RememberSavedConfig(c)
  \/ \E c \in CallIds : RememberSavedStatus(c)

SpecTwo == Init /\ [][NextTwo]_vars

\* the terminal tabs of one project's runs on either backend: they are typed
\* into, resized and closed, and the runs are stopped, one call at a time
NextTerminal ==
  \/ Lifecycle({"p1"}, {[NoOverrides EXCEPT !.command = Some("c3")]},
               BOOLEAN, {Some(0)}, FALSE)
  \/ Fallback
  \/ Stopping({"p1"})
  \/ Ui
  \/ Typing

SpecTerminal == Init /\ [][NextTerminal]_vars

\* the run button of one project while the project is run and stopped and
\* its runs end with any exit report
NextButton ==
  \/ Lifecycle({"p1"}, {[NoOverrides EXCEPT !.command = Some("c3")]},
               {TRUE}, ExitReports, FALSE)
  \/ Stopping({"p1"})
  \/ \E p \in {"p1"} : Render(p)

SpecButton == Init /\ [][NextButton]_vars

\* what start() and the exit handler await (the database, the spawn of a
\* process) completes, and the suspended call goes on
Completion ==
  /\ WF_vars(\E c \in CallIds : StartResolved(c))
  /\ WF_vars(\E c \in CallIds, ptyOk \in BOOLEAN : StartSavedStarting(c, ptyOk))
  /\ WF_vars(\E c \in CallIds, shellOk \in BOOLEAN : StartShellSpawn(c, shellOk))
  /\ WF_vars(\E c \in CallIds : StartSavedRunning(c))
  /\ WF_vars(\E t \in TabIds : ExitSaved(t))

\* runs of one project on either backend, one call at a time, stopped at any
\* time; every awaited operation completes
NextLive ==
  \/ Lifecycle({"p1"}, {[NoOverrides EXCEPT !.command = Some("c3")]},
               BOOLEAN, ExitReports, FALSE)
  \/ Fallback
  \/ Stopping({"p1"})

SpecLive == Init /\ [][NextLive]_vars /\ Completion

\* application sessions one after the other: in each the states of the
\* project list are loaded and the project is run and stopped, one call at
\* a time
NextRestart ==
  \/ Lifecycle({"p1"}, {[NoOverrides EXCEPT !.command = Some("c3")]},
               {TRUE}, {Some(0)}, FALSE)
  \/ Stopping({"p1"})
  \/ Load({"p1"}, FALSE)
  \/ Restart

SpecRestart == Init /\ [][NextRestart]_vars

\* runs of one project, one call at a time, with a database that can
\* reject each save of the status
NextPersist ==
  \/ Lifecycle({"p1"}, {[NoOverrides EXCEPT !.command = Some("c3")]},
               {TRUE}, ExitReports, FALSE)
  \/ Stopping({"p1"})
  \/ SaveFailure

SpecPersist == Init /\ [][NextPersist]_vars

\* a process that was sent a kill ends
KilledExit ==
  \E t \in TabIds, report \in ExitReports :
    /\ Has(procs, t) /\ procs[t].killedBy # {}
    /\ ProcExit(t, report)

\* the same runs with terminal tabs closed at any time; every awaited
\* operation completes and every killed process ends
NextClose ==
  \/ NextLive
  \/ Ui

SpecClose == Init /\ [][NextClose]_vars /\ Completion /\ WF_vars(KilledExit)

\* runs of one project, started one at a time and stopped, while a
\* configuration of the project is remembered at any time, also during a
\* start()
NextMixed ==
  \/ Lifecycle({"p1"}, {[NoOverrides EXCEPT !.command = Some("c3")]},
               {TRUE}, {Some(0)}, FALSE)
  \/ Stopping({"p1"})
  \/ \E config \in {cf \in ConfigSet("p1") : cf.id = "r1"} :
       RememberCall("p1", config, TRUE)
  \/ \E c \in CallIds : RememberSavedConfig(c)
  \/ \E c \in CallIds : RememberSavedStatus(c)

SpecMixed == Init /\ [][NextMixed]_vars

\* the terminal tabs of one project: interactive tabs are opened one at a
\* time and closed, and the project is run on either backend
NextTabs ==
  \/ Lifecycle({"p1"}, {[NoOverrides EXCEPT !.command = Some("c3")]},
               BOOLEAN, {Some(0)}, FALSE)
  \/ Fallback
  \/ Tabs({"p1"}, FALSE)
  \/ Ui

SpecTabs == Init /\ [][NextTabs]_vars

\* ================================================================ claims
StartCalls(p) ==
  {c \in DOMAIN calls : calls[c].kind = "start" /\ calls[c].project = p}
StatusOf(m, p) == IF Has(m, p) THEN m[p].status ELSE "absent"
Busy(p) == StatusOf(states, p) \in {"starting", "running"}
\* the exit handler of the process of tab t, while it is in flight
Handler(ps, t) == Get(ps[t].exit)
Handling(ps, t) == Has(ps, t) /\ ps[t].exit # None

\* C1: of the start() calls of one project that are in flight at the same
\* time, at most one has passed the RunAlreadyInProgress guard (a call is in
\* flight here only once it has passed the guard).
C1_OnePastGuard ==
  \A p \in Projects : Cardinality(StartCalls(p)) <= 1

\* C2: a start() made while the project's status is starting or running puts
\* no call in flight: it rejects with RunAlreadyInProgress; and a start() that
\* rejects so was made in such a status and changed neither the RunState map,
\* the run_status table, the session registry nor the RunProcess registry.
C2_BusyStartRejects ==
  [][\A p \in Projects :
       /\ Busy(p) => \A c \in DOMAIN calls' \ DOMAIN calls :
                        ~(calls'[c].kind = "start" /\ calls'[c].project = p)
       /\ lastEvent' = Event("start", p, "RunAlreadyInProgress")
            => /\ Busy(p)
               /\ UNCHANGED <<states, persisted, tabMap, processes, procs, calls>>
    ]_vars

C2_Witness ==
  /\ lastEvent = Event("start", "p1", "RunAlreadyInProgress")
  /\ StatusOf(states, "p1") = "starting"

\* C3: when stop() has reached the process of the registered RunProcess and
\* that process then delivers its exit event, the exit handler writes the
\* final status stopped, whatever the exit code.
C3_StoppedAfterStop ==
  \A t \in DOMAIN procs :
    ("stop" \in procs[t].killedBy /\ procs[t].exit # None)
      => Handler(procs, t).finalState.status = "stopped"

\* C4: when start() has rejected because the PTY spawn and the fallback spawn
\* both threw, the project's RunState is failed with tabId null and no
\* RunProcess is registered.
C4_RolledBackToFailed ==
  \A p \in Projects :
    lastEvent = Event("start", p, "SpawnFailed")
      => /\ StatusOf(states, p) = "failed"
         /\ states[p].tabId = None
         /\ ~processesHas(processes, p)

\* C5: the final status and lastExitCode of a run depend on whether a stop
\* was requested and on the exit code its process reported, in the way they
\* do for a run on the PTY backend, whichever backend the run is on.
C5_SameOutcomeOnBothBackends ==
  \A t \in DOMAIN procs :
    procs[t].exit # None
      => LET h == Handler(procs, t)
             report == procs[t].report
         IN /\ h.finalState.lastExitCode = report
            /\ h.finalState.status =
                 IF h.stopRequested THEN "stopped"
                 ELSE IF report = Some(0) THEN "succeeded" ELSE "failed"

\* C6: when the subprocess of a fallback run closes with a null code and no
\* stop was requested, the ShellAdapter reports a non-zero code and the run is
\* classified failed; it reports 0 only for a close with the code 0.
C6_UnknownCodeIsFailure ==
  \A t \in DOMAIN procs :
    (procs[t].backend = "shell" /\ procs[t].exit # None)
      => LET h == Handler(procs, t)
         IN /\ h.code = Some(0) => procs[t].report = Some(0)
            /\ (procs[t].report = None /\ ~h.stopRequested)
                 => h.finalState.status = "failed"

\* C7: the exit handler takes the final status from the stopRequested flag of
\* the project's RunProcess at the exit event (stopped if set), else from the
\* exit code it is called with (failed for null or non-zero, else succeeded),
\* and what it publishes and saves has that status, that code as lastExitCode
\* and a finishedAt.
C7_ExitClassification ==
  [][\A t \in TabIds :
       /\ (Has(procs, t) /\ procs[t].alive /\ Handling(procs', t))
            => LET h == Handler(procs', t)
                   p == procs[t].project
                   requested == processesHas(processes, p)
                                /\ processesGet(processes, p).stopRequested
               IN /\ h.finalState.status =
                       IF requested THEN "stopped"
                       ELSE IF h.code = None \/ h.code # Some(0) THEN "failed"
                       ELSE "succeeded"
                  /\ h.finalState.lastExitCode = h.code
                  /\ h.finalState.finishedAt # None
                  /\ procs[t].backend = "pty" => h.code = procs'[t].report
       /\ (Handling(procs, t) /\ Handler(procs, t).pc = "saveFinal"
             /\ ~(Handling(procs', t) /\ Handler(procs', t).pc = "saveFinal"))
            => LET h == Handler(procs, t)
                   p == procs[t].project
               IN /\ states'[p].status = h.finalState.status
                  /\ states'[p].lastExitCode = h.code
                  /\ states'[p].finishedAt # None
                  /\ persisted'[p].status = h.finalState.status
                  /\ persisted'[p].last_exit_code = h.code
    ]_vars

C7_Witness ==
  /\ lastEvent = Event("exitHandler", "p1", "returned")
  /\ StatusOf(states, "p1") = "failed"
  /\ states["p1"].lastExitCode = None
  /\ states["p1"].finishedAt # None

\* the call c takes a step
Acts(c) == Has(calls, c) /\ (~Has(calls', c) \/ calls'[c] # calls[c])
\* the call c is made in this step
Made(c) == ~Has(calls, c) /\ Has(calls', c)
\* the saved configurations of project p, latest updated_at first
ConfigsOf(p) == listRuns(runs, p)
\* the ids of the saved configurations of project p, latest save first
SavedIdsOf(p) ==
  SelectSeq(savedOrder, LAMBDA id : \E i \in 1..Len(runs) :
               IsRow(runs[i]) /\ runs[i].id = id /\ runs[i].projectId = p)

\* the resolution order of start(), with Pick(p) the id of the saved
\* configuration the last step falls back to
C8_Order(Pick(_)) ==
  \A c \in CallIds :
    /\ (Made(c) /\ calls'[c].kind = "start")
         => LET call == calls'[c]
                state == states'[call.project]
            IN IF call.overrides.command # None
               THEN /\ call.pc = "resolved"
                    /\ Get(call.command).command = Get(call.overrides.command)
               ELSE IF state.lastCommand # None
               THEN /\ call.pc = "resolved"
                    /\ Get(call.command).command = Get(state.lastCommand)
                    /\ Get(call.command).runId = state.lastRunId
               ELSE /\ call.pc = "listRuns"
                    /\ call.command = None
    /\ (Acts(c) /\ calls[c].kind = "start" /\ calls[c].pc = "listRuns")
         => LET p == calls[c].project
            IN IF ConfigsOf(p) = <<>>
               THEN ~Has(calls', c)
               ELSE /\ Has(calls', c)
                    /\ Get(calls'[c].command).runId = Some(Pick(p))
                    /\ \E i \in 1..Len(runs) :
                         /\ IsRow(runs[i]) /\ runs[i].id = Pick(p)
                         /\ Get(calls'[c].command).command = runs[i].command

\* C8 (as claimed): start() takes the override command if there is one, else
\* the lastCommand of the RunState if there is one, else the configuration of
\* the project that was saved most recently.
C8_MostRecentlySaved ==
  [][C8_Order(LAMBDA p : SavedIdsOf(p)[1])]_vars

\* C8 (amended): start() takes the override command if there is one, else the
\* lastCommand of the RunState if there is one, else the configuration of the
\* project with the latest updated_at, which saveRunConfig and
\* updateRunOutcome both set.
C8_LatestUpdated ==
  [][C8_Order(LAMBDA p : ConfigsOf(p)[1].id)]_vars

\* a call resolved to a configuration that is not the one saved last
C8_Witness ==
  \E c \in DOMAIN calls :
    /\ calls[c].kind = "start" /\ calls[c].pc = "saveStarting"
    /\ calls[c].state.lastCommand = None
    /\ calls[c].overrides = NoOverrides
    /\ Get(calls[c].command).runId = Some(ConfigsOf(calls[c].project)[1].id)
    /\ Len(ConfigsOf(calls[c].project)) = 2
    /\ SavedIdsOf(calls[c].project)[1] # ConfigsOf(calls[c].project)[1].id

\* C9: a start() without an override command for a project without a
\* last-used command goes on to list the saved configurations, and with none
\* saved for the project it rejects with MissingRunConfiguration; neither step
\* changes the status (an absent RunState is created idle), the run_status
\* table, the session registry, the processes or the RunProcess registry.
C9_MissingConfiguration ==
  [][\A p \in Projects :
       /\ \A c \in CallIds :
            (Made(c) /\ calls'[c].kind = "start" /\ calls'[c].project = p)
              => /\ calls'[c].pc = "listRuns"
                     <=> (calls'[c].overrides.command = None
                          /\ states'[p].lastCommand = None)
                 /\ calls'[c].pc = "listRuns"
                     => /\ StatusOf(states', p)
                             = IF Has(states, p) THEN StatusOf(states, p) ELSE "idle"
                        /\ UNCHANGED <<persisted, tabMap, processes, procs>>
       /\ \A c \in StartCalls(p) :
            (Acts(c) /\ calls[c].pc = "listRuns")
              => (lastEvent' = Event("start", p, "MissingRunConfiguration")
                    <=> ConfigsOf(p) = <<>>)
       /\ lastEvent' = Event("start", p, "MissingRunConfiguration")
            => /\ UNCHANGED <<states, persisted, tabMap, processes, procs>>
               /\ \E c \in StartCalls(p) : ~Has(calls', c) /\ calls[c].pc = "listRuns"
    ]_vars

C9_Witness ==
  /\ lastEvent = Event("start", "p1", "MissingRunConfiguration")
  /\ StatusOf(states, "p1") = "idle"
  /\ ~Has(persisted, "p1") /\ tabMap = EmptyMap /\ processes = {}

\* C10: a start() without overrides on an idle project with a remembered
\* command resolves to that command; saving the starting snapshot takes the
\* status from idle to starting, saving the running snapshot takes it from
\* starting to running, and the end of the exit handler for the code 0 with
\* no stop requested takes it from running to succeeded with lastExitCode 0.
C10_RememberedRun ==
  [][\A p \in Projects :
       /\ \A c \in StartCalls(p) :
            LET call == calls[c]
            IN /\ (Acts(c) /\ call.pc = "saveStarting"
                     /\ call.overrides = NoOverrides
                     /\ call.state.status = "idle" /\ call.state.lastCommand # None
                     /\ StatusOf(states, p) = "idle")
                    => /\ StatusOf(states', p) = "starting"
                       /\ states'[p].lastCommand = call.state.lastCommand
                       /\ states'[p].lastArgs = call.state.lastArgs
                       /\ states'[p].lastEnv = call.state.lastEnv
                       /\ persisted'[p].status = "starting"
               /\ (Acts(c) /\ call.pc = "saveRunning"
                     /\ StatusOf(states, p) = "starting")
                    => /\ StatusOf(states', p) = "running"
                       /\ persisted'[p].status = "running"
                       /\ lastEvent' = Event("start", p, "returned")
       /\ \A t \in TabIds :
            (Handling(procs, t) /\ Handler(procs, t).pc = "saveFinal"
               /\ procs[t].project = p
               /\ ~(Handling(procs', t) /\ Handler(procs', t).pc = "saveFinal")
               /\ Handler(procs, t).code = Some(0)
               /\ ~Handler(procs, t).stopRequested
               /\ StatusOf(states, p) = "running")
              => /\ StatusOf(states', p) = "succeeded"
                 /\ states'[p].lastExitCode = Some(0)
                 /\ persisted'[p].status = "succeeded"
       /\ (StatusOf(states, p) \in {"idle", "starting"}
             /\ StatusOf(states', p) # StatusOf(states, p))
            => StatusOf(states', p)
                 = IF StatusOf(states, p) = "idle" THEN "starting" ELSE "running"
    ]_vars

C10_Witness ==
  /\ lastEvent = Event("exitHandler", "p1", "returned")
  /\ StatusOf(states, "p1") = "succeeded"
  /\ states["p1"].lastExitCode = Some(0)
  /\ states["p1"].lastCommand = Some("c1")
  /\ states["p1"].lastRunId = Some("r1")

\* the backing processes of project p that were spawned and have not ended
AliveOf(p) == {t \in DOMAIN procs : procs[t].project = p /\ procs[t].alive}

\* C11: of the backing processes start() has spawned for one project, at most
\* one is alive at any time.
C11_OneAliveProcess ==
  \A p \in Projects : Cardinality(AliveOf(p)) <= 1

\* C12: the RunProcess registry holds at most one entry for each project id.
C12_OneEntryPerProject ==
  \A p \in Projects : Cardinality({e \in processes : e[1] = p}) <= 1

\* a second start() has registered its RunProcess while the run the project's
\* entry was for before is still alive with its exit handler subscribed
C12_Witness ==
  \E e \in processes, t \in DOMAIN procs :
    /\ e[1] = "p1" /\ procs[t].project = "p1"
    /\ procs[t].alive /\ procs[t].listening
    /\ e[2].tabId # t
    /\ Has(procs, e[2].tabId) /\ procs[e[2].tabId].listening

Terminal == {"succeeded", "failed", "stopped"}

\* C13: whenever the status of a project's RunState changes, starting is
\* entered from idle or a terminal status, running from starting, and a
\* terminal status from running.
C13_StatusOrder ==
  [][\A p \in Projects :
       LET old == StatusOf(states, p)
           new == StatusOf(states', p)
       IN (old # new /\ old # "absent")
            => /\ new = "starting" => old \in {"idle"} \cup Terminal
               /\ new = "running" => old = "starting"
               /\ new \in Terminal => old = "running"
    ]_vars

\* C14: a stop() for a project without a registered RunProcess changes
\* nothing; a stop() for a project with one sets stopRequested on it, leaves
\* the rest of the registry as it is and sends a kill to the process of its
\* tab; neither changes the RunState map, the run_status table or the
\* session registry.
C14_StopFrame ==
  [][\A p \in Projects :
       /\ lastEvent' = Event("stop", p, "noop")
            => /\ ~processesHas(processes, p)
               /\ UNCHANGED <<states, processes, toast, tabMap, procs,
                              persisted, runs, savedOrder, calls>>
       /\ lastEvent' = Event("stop", p, "killed")
            => /\ processesHas(processes, p)
               /\ LET old == processesGet(processes, p)
                  IN /\ processes' = processesDelete(processes, p)
                          \cup {<<p, [old EXCEPT !.stopRequested = TRUE]>>}
                     /\ (Has(procs, old.tabId) /\ procs[old.tabId].alive)
                          => "stop" \in procs'[old.tabId].killedBy
                     /\ \A t \in DOMAIN procs :
                          /\ Has(procs', t)
                          /\ procs'[t].alive = procs[t].alive
                          /\ procs'[t].exit = procs[t].exit
               /\ UNCHANGED <<states, persisted, tabMap>>
    ]_vars

C14_Witness ==
  /\ lastEvent = Event("stop", "p1", "killed")
  /\ StatusOf(states, "p1") = "running"
  /\ processesGet(processes, "p1").stopRequested
  /\ "stop" \in procs[processesGet(processes, "p1").tabId].killedBy

RememberCalls(p) ==
  {c \in DOMAIN calls : calls[c].kind = "remember" /\ calls[c].project = p}
\* the fields of a RunState that rememberConfiguration is to leave alone
RunFields(state) ==
  <<state.status, state.lastExitCode, state.startedAt, state.finishedAt>>
RowFields(row) ==
  <<row.status, row.last_exit_code, row.started_at, row.finished_at>>

\* C15: rememberConfiguration saves the configuration and builds, from the
\* RunState it reads, one with lastRunId, lastCommand, lastArgs, lastEnv and
\* lastCwd (the project's path for a null cwd) of the configuration; when
\* nothing else has changed the RunState in the meantime, that state is
\* published and saved, with status, lastExitCode, startedAt, finishedAt and
\* tabId as they were in memory and in the existing run_status row.
C15_RememberFrame ==
  [][\A p \in Projects : \A c \in RememberCalls(p) :
       LET call == calls[c]
       IN /\ (Acts(c) /\ call.pc = "saveRunConfig")
               => /\ \E i \in 1..Len(runs') : runs'[i] = RunRow(call.config)
                  /\ Get(calls'[c].state) = getState(states, p)
          /\ (Acts(c) /\ call.pc = "saveRunStatus" /\ states[p] = Get(call.state))
               => /\ states'[p].lastRunId = Some(call.config.id)
                  /\ states'[p].lastCommand = Some(call.config.command)
                  /\ states'[p].lastArgs = call.config.args
                  /\ states'[p].lastEnv = call.config.env
                  /\ states'[p].lastCwd
                       = Some(Coalesce(call.config.cwd, ProjectPath(p)))
                  /\ RunFields(states'[p]) = RunFields(states[p])
                  /\ states'[p].tabId = states[p].tabId
                  /\ RowFields(persisted'[p]) = RunFields(states[p])
                  /\ Has(persisted, p)
                       => RowFields(persisted'[p]) = RowFields(persisted[p])
                  /\ persisted'[p].last_command = Some(call.config.command)
                  /\ persisted'[p].last_run_id = Some(call.config.id)
                  /\ lastEvent' = Event("rememberConfiguration", p, "returned")
    ]_vars

C15_Witness ==
  /\ lastEvent = Event("rememberConfiguration", "p1", "returned")
  /\ StatusOf(states, "p1") = "succeeded"
  /\ states["p1"].lastExitCode = Some(0)
  /\ states["p1"].lastCommand = Some("c2")
  /\ states["p1"].lastRunId = Some("r2")
  /\ states["p1"].lastCwd = Some("/w")
  /\ persisted["p1"].status = "succeeded"

\* what listRuns and listRunStatuses return for the configuration a
\* rememberConfiguration has just saved, with Cwd(config, p) the cwd the
\* status row is to carry
C16_RoundTrip(Cwd(_, _)) ==
  \A p \in Projects : \A c \in RememberCalls(p) :
    (Acts(c) /\ calls[c].pc = "saveRunStatus")
      => LET config == calls[c].config
             listed == listRuns(runs', p)
             loaded == CHOOSE st \in listRunStatuses(persisted') : st.projectId = p
         IN /\ ~Has(calls', c)
            /\ \E i \in 1..Len(listed) :
                 /\ listed[i].id = config.id
                 /\ listed[i].command = config.command
                 /\ listed[i].args = config.args
                 /\ listed[i].env = config.env
                 /\ listed[i].cwd = config.cwd
            /\ loaded.lastCommand = Some(config.command)
            /\ loaded.lastArgs = config.args
            /\ loaded.lastEnv = config.env
            /\ loaded.lastCwd = Cwd(config, p)

C17_ExactlyTheGivenProjects ==
  [][/\ lastEvent'.op \in {"syncProjects", "loadPersistedStates"}
          => DOMAIN states' = lastEvent'.projects
     /\ lastEvent'.op = "syncProjects"
          => \A p \in lastEvent'.projects :
               states'[p] = IF Has(states, p) THEN states[p] ELSE createIdleState(p)
     /\ lastEvent'.op = "loadPersistedStates"
          => \A p \in lastEvent'.projects :
               IF Has(persisted, p)
               THEN /\ toPersist(states'[p]) = fromRunStatusRow(persisted[p])
                    /\ states'[p].tabId = None
               ELSE states'[p] = createIdleState(p)
    ]_vars

\* a sync with a list that lacks a project that has been run and has a new one
C17_Witness ==
  /\ lastEvent = ListEvent("syncProjects", {"p2"})
  /\ DOMAIN states = {"p2"}
  /\ Has(persisted, "p1")
  /\ states["p2"] = createIdleState("p2")

\* the exit handler of the process of tab t finishes in this step
Finishes(t) == Handling(procs, t) /\ ~Handling(procs', t)

\* C18: when the exit handler of a run finishes, it has set the notification
\* to one that names the project and the tab of the run if the run was not
\* stopped and its process reported a non-zero or no exit code, and has left
\* the notification alone otherwise; nothing else sets a notification, and
\* dismissToast() clears it.
C18_OneToastPerFailedRun ==
  [][/\ \A t \in TabIds :
          Finishes(t)
            => LET h == Handler(procs, t)
                   failedRun == ~h.stopRequested /\ procs[t].report # Some(0)
               IN IF failedRun
                  THEN /\ toast' # None
                       /\ Get(toast').projectId = procs[t].project
                       /\ Get(toast').tabId = t
                  ELSE toast' = toast
     /\ toast' # toast
          => \/ \E t \in TabIds : Finishes(t)
             \/ lastEvent' = Event("dismissToast", "", "returned")
     /\ lastEvent' = Event("dismissToast", "", "returned") => toast' = None
    ]_vars

\* the RunState, the RunProcess entries and the sessions of project q
OwnedBy(m, registry, tabs, q) ==
  <<IF Has(m, q) THEN {m[q]} ELSE {},
    {e \in registry : e[1] = q},
    {<<t, tabs[t]>> : t \in {u \in DOMAIN tabs : tabs[u].projectId = q}}>>
\* this step belongs to an operation on project p: a call of start, stop or
\* rememberConfiguration for p is made, takes a step or returns, or a process
\* of p ends, or its exit handler takes a step
OperatesOn(p) ==
  \/ lastEvent'.project = p
  \/ \E c \in CallIds :
       \/ Made(c) /\ calls'[c].project = p
       \/ Acts(c) /\ calls[c].project = p
  \/ \E t \in DOMAIN procs :
       /\ procs[t].project = p
       /\ \/ procs[t].alive /\ ~(Has(procs', t) /\ procs'[t].alive)
          \/ Handling(procs, t) /\ (~Has(procs', t) \/ procs'[t].exit # procs[t].exit)

\* C19: every step belongs to an operation on one project, and leaves the
\* RunState, the RunProcess entry and the sessions of every other project as
\* they were.
C19_OtherProjectsUntouched ==
  [][\E p \in Projects :
       /\ OperatesOn(p)
       /\ \A q \in Projects \ {p} :
            /\ ~OperatesOn(q)
            /\ OwnedBy(states', processes', tabMap', q)
                 = OwnedBy(states, processes, tabMap, q)
    ]_vars

\* both projects have a run, and one of them a remembered configuration
C19_Witness ==
  /\ StatusOf(states, "p1") = "running" /\ StatusOf(states, "p2") = "running"
  /\ processesHas(processes, "p1") /\ processesHas(processes, "p2")
  /\ processesGet(processes, "p1").tabId # processesGet(processes, "p2").tabId
  /\ processesGet(processes, "p1").stopRequested
  /\ states["p2"].lastRunId = Some("r1")

\* C20: when start() returns, the project's status is running, its tabId is
\* the tab of the call, that tab is in the session registry, and the
\* project's RunProcess has that tab and stopRequested false; start() returns
\* whether the process of the tab has ended or not.
C20_RunningAtReturn ==
  [][\A p \in Projects : \A c \in StartCalls(p) :
       (Acts(c) /\ calls[c].pc = "saveRunning")
         => LET tab == Get(calls[c].tab)
            IN /\ lastEvent' = Event("start", p, "returned")
               /\ ~Has(calls', c)
               /\ StatusOf(states', p) = "running"
               /\ states'[p].tabId = Some(tab)
               /\ Has(tabMap', tab)
               /\ processesHas(processes', p)
               /\ processesGet(processes', p).tabId = tab
               /\ ~processesGet(processes', p).stopRequested
    ]_vars

\* C21: write() and resize() with a tab id that is not in the registry return
\* and change nothing (no process receives data or a size, the registry and
\* every other variable stay as they are), and resize() with a number of
\* columns or rows that is not positive never reaches a process
C21_UnknownSessionNoOp ==
  [][lastEvent'.op \in {"write", "resize"} =>
       /\ ~Has(tabMap, lastEvent'.tab) =>
            /\ lastEvent'.result = "returned"
            /\ UNCHANGED <<states, processes, toast, tabMap, procs, persisted,
                           runs, savedOrder, calls>>
       /\ (lastEvent'.op = "resize"
             /\ (lastEvent'.columns <= 0 \/ lastEvent'.rows <= 0)) =>
            procs' = procs]_vars

\* write() has returned for the id of a closed tab whose process is still
\* running and has received nothing
C21_Witness ==
  \E t \in TabIds :
    /\ lastEvent = TabEvent("write", t, "returned")
    /\ ~Has(tabMap, t)
    /\ Has(procs, t) /\ procs[t].alive /\ ~procs[t].received

\* C22: dispose(id) returns without raising and leaves no tab `id`; for a
\* registered id it removes that tab only, sends the process a kill if it is
\* still running and drops the exit listeners of a ShellAdapter; for an id
\* that is not registered (never was, or disposed before) nothing changes
C22_DisposeIdempotent ==
  [][lastEvent'.op = "dispose" =>
       LET t == lastEvent'.tab IN
       /\ lastEvent'.result = "returned"
       /\ ~Has(tabMap', t)
       /\ UNCHANGED <<states, processes, toast, persisted, runs, savedOrder, calls>>
       /\ IF Has(tabMap, t)
          THEN /\ tabMap' = MapDelete(tabMap, t)
               /\ DOMAIN procs' = DOMAIN procs
               /\ \A u \in DOMAIN procs \ {t} : procs'[u] = procs[u]
               /\ (Has(procs, t) /\ procs[t].alive) =>
                    /\ procs'[t].alive
                    /\ "dispose" \in procs'[t].killedBy
                    /\ tabMap[t].pty = "shell" => ~procs'[t].wired
          ELSE UNCHANGED <<tabMap, procs>>]_vars

\* dispose(id) has returned for a tab that an earlier dispose(id) removed:
\* the process was killed by that disposal and has ended since
C22_Witness ==
  \E t \in TabIds :
    /\ lastEvent = TabEvent("dispose", t, "returned")
    /\ Has(procs, t) /\ ~procs[t].alive
    /\ "dispose" \in procs[t].killedBy

\* C23: write(), dispose() and stop() never raise what the write or the kill
\* of the backing process throws once the tab exists: each of them returns
C23_BackendFailureSwallowed ==
  lastEvent.op \in {"write", "dispose", "stop"} => lastEvent.result # "threw"

\* C24: a rendered RunButton shows the starting text exactly when its status is
\* starting, "Stop" exactly when it is running, and "Run" exactly when it is
\* idle, succeeded, failed or stopped; the status is that of the project
C24_ButtonText ==
  lastEvent.op = "RunButton" =>
    /\ lastEvent.status = getState(states, lastEvent.project).status
    /\ lastEvent.text = StartingText <=> lastEvent.status = "starting"
    /\ lastEvent.text = "Stop" <=> lastEvent.status = "running"
    /\ lastEvent.text = "Run" <=>
         lastEvent.status \in {"idle", "succeeded", "failed", "stopped"}

\* the button of a project whose run was stopped has been rendered
C24_Witness ==
  /\ lastEvent.op = "RunButton"
  /\ lastEvent.status = "stopped"
  /\ StatusOf(states, lastEvent.project) = "stopped"

\* the backing process of a run of project p has ended
Exited(p) ==
  \E t \in DOMAIN procs : procs[t].project = p /\ ~procs[t].alive
\* the project is in a terminal status and has no RunProcess
Settled(p) ==
  StatusOf(states, p) \in Terminal /\ ~processesHas(processes, p)

\* C25: whenever the backing process of a run has ended, the project
\* eventually is in a terminal status with its RunProcess removed, also when
\* the process ends while start() still awaits the save of the running
\* snapshot
C25_ExitLeadsToTerminal ==
  \A p \in Projects : Exited(p) ~> Settled(p)

\* C26: whenever the status of a project is starting or running, a start()
\* call of the project is in flight or a RunProcess is registered for it in
\* this session, so the status is not one that start() rejects while stop()
\* does nothing; this holds right after loadPersistedStates has loaded a row
\* that an earlier session saved as starting or running
C26_BusyAccounted ==
  \A p \in Projects :
    Busy(p) => StartCalls(p) # {} \/ processesHas(processes, p)

\* C27: whether its save of the status succeeds or fails, a start() call that
\* has resolved its command publishes starting and goes on, a start() call
\* that has spawned its process publishes running and returns, and an exit
\* handler publishes its final state and removes the RunProcess; no call
\* rejects with the failure of a save
C27_SaveFailureKeepsTransition ==
  [][/\ lastEvent'.result # "SaveFailed"
     /\ \A c \in DOMAIN calls :
          (calls[c].kind = "start" /\ Acts(c)) =>
            /\ calls[c].pc = "saveStarting" =>
                 /\ StatusOf(states', calls[c].project) = "starting"
                 /\ Has(calls', c)
            /\ calls[c].pc = "saveRunning" =>
                 /\ StatusOf(states', calls[c].project) = "running"
                 /\ lastEvent' = Event("start", calls[c].project, "returned")
     /\ \A t \in DOMAIN procs :
          (Handling(procs, t) /\ Handler(procs, t).pc = "saveFinal"
             /\ (~Handling(procs', t) \/ Handler(procs', t) # Handler(procs, t))) =>
            /\ StatusOf(states', procs[t].project) \in Terminal
            /\ ~processesHas(processes', procs[t].project)]_vars

\* a tab that enters the registry in this step belongs to a project whose
\* published status is starting
CreatedWhileStarting ==
  \A t \in DOMAIN tabMap' \ DOMAIN tabMap :
    StatusOf(states', tabMap'[t].projectId) = "starting"

\* C28 (as stated): the tab of a run is created only when the status of its
\* project is starting, and once the status is terminal the tab of the run
\* is not in the registry
C28_DisposedByTerminal ==
  [][/\ CreatedWhileStarting
     /\ \A p \in DOMAIN states' :
          states'[p].status \in Terminal =>
            \A t \in states'[p].tabId : ~Has(tabMap', t)]_vars

\* C28 (amended): the tab of a run is created only when the status of its
\* project is starting; the exit handler publishes the terminal state with
\* the id of the run's tab and leaves the registry alone, and a tab leaves
\* the registry only through dispose(id)
C28_KeptUntilDisposed ==
  [][/\ CreatedWhileStarting
     /\ \A t \in DOMAIN tabMap \ DOMAIN tabMap' :
          lastEvent' = TabEvent("dispose", t, "returned")
     /\ \A t \in DOMAIN procs :
          (Handling(procs, t) /\ Handler(procs, t).pc = "saveFinal"
             /\ (~Handling(procs', t) \/ Handler(procs', t) # Handler(procs, t))) =>
            /\ states'[procs[t].project].status \in Terminal
            /\ states'[procs[t].project].tabId = Some(t)
            /\ tabMap' = tabMap]_vars

\* the exit handler of a run has returned and the tab of the run is still
\* in the registry
C28_Witness ==
  \E p \in DOMAIN states :
    /\ lastEvent = Event("exitHandler", p, "returned")
    /\ states[p].status \in Terminal
    /\ \E t \in states[p].tabId : Has(tabMap, t)

\* the tab of the running run of project p has just been closed: dispose()
\* has returned for the tab of the registered RunProcess, whose process is
\* still running
ClosedWhileRunning(p) ==
  /\ lastEvent.op = "dispose"
  /\ StatusOf(states, p) = "running"
  /\ processesHas(processes, p)
  /\ processesGet(processes, p).tabId = lastEvent.tab
  /\ Has(procs, lastEvent.tab) /\ procs[lastEvent.tab].alive
  /\ "dispose" \in procs[lastEvent.tab].killedBy

\* C29: when the tab of a running run is closed, the project eventually is
\* in a terminal status with its RunProcess removed, on either backend
C29_ClosedTabLeadsToTerminal ==
  \A p \in Projects : ClosedWhileRunning(p) ~> Settled(p)

\* the RunProcess entries registered for the run in tab t of project p
OwnEntries(registry, p, t) ==
  {e \in registry : e[1] = p /\ e[2].tabId = t}

\* C30: the exit handler of the run in tab t takes stopRequested from the
\* RunProcess registered for tab t (false if there is none) and removes that
\* RunProcess and no other: it neither classifies by the flag of, nor
\* deregisters, the RunProcess of another process of the project
C30_OwnRunProcessOnly ==
  [][\A t \in DOMAIN procs :
       /\ (~Handling(procs, t) /\ Handling(procs', t)) =>
            Handler(procs', t).stopRequested =
              (\E e \in OwnEntries(processes, procs[t].project, t) : e[2].stopRequested)
       /\ (Handling(procs, t) /\ Handler(procs, t).pc = "saveFinal"
             /\ (~Handling(procs', t) \/ Handler(procs', t) # Handler(procs, t))) =>
            processes' = processes \ OwnEntries(processes, procs[t].project, t)]_vars

\* the last-used fields of a RunState, which rememberConfiguration sets
\* (finalState of the exit handler is to leave them alone)
LastUsedFields(state) ==
  <<state.lastRunId, state.lastCommand, state.lastArgs, state.lastEnv, state.lastCwd>>

\* the exit handler of tab t publishes its final state in this step
Publishes(t) ==
  /\ Handling(procs, t) /\ Handler(procs, t).pc = "saveFinal"
  /\ (~Handling(procs', t) \/ Handler(procs', t) # Handler(procs, t))

\* C31: no update is lost when rememberConfiguration overlaps with the exit
\* handler: the state rememberConfiguration publishes keeps the status, exit
\* code, times and tab that are in memory when it publishes (it writes back
\* no stale status), and the final state the exit handler publishes keeps
\* the last-used fields that are in memory when it publishes
C31_NoLostUpdate ==
  [][\A p \in Projects :
       /\ \A c \in RememberCalls(p) :
            (Acts(c) /\ calls[c].pc = "saveRunStatus") =>
              /\ RunFields(states'[p]) = RunFields(getState(states, p))
              /\ states'[p].tabId = getState(states, p).tabId
       /\ \A t \in DOMAIN procs :
            (procs[t].project = p /\ Publishes(t)) =>
              LastUsedFields(states'[p]) = LastUsedFields(getState(states, p))
    ]_vars

\* C32: a status that start() or the exit handler has set is in the status
\* store when the in-memory state shows it: a project whose in-memory status
\* is not idle has a row with that status; and when start() has returned,
\* the row of the project has the status running
C32_SavedBeforeShown ==
  /\ \A p \in DOMAIN states :
       states[p].status # "idle" =>
         Has(persisted, p) /\ persisted[p].status = states[p].status
  /\ \A p \in Projects :
       lastEvent = Event("start", p, "returned") =>
         Has(persisted, p) /\ persisted[p].status = "running"

\* start() has returned for the second run of a project, and the row of
\* the project says running
C32_Witness ==
  \E p \in DOMAIN states :
    /\ lastEvent = Event("start", p, "returned")
    /\ states[p].status = "running"
    /\ persisted[p].status = "running"
    /\ states[p].tabId = Some(MaxTabs)

\* C33: the status of a project leaves running only in the step in which the
\* exit handler of a process of the project publishes its final state: no
\* stop(), rememberConfiguration(), syncProjects() or loadPersistedStates()
\* changes a running status, and a project whose process does not end stays
\* running
C33_LeavesRunningOnExitOnly ==
  [][\A p \in Projects :
       (StatusOf(states, p) = "running" /\ StatusOf(states', p) # "running")
         => \E t \in DOMAIN procs : procs[t].project = p /\ Publishes(t)]_vars

\* C34: a stop() of a project whose status is starting, with its start()
\* still in flight, is not lost: it leaves something behind (a flag, a kill,
\* a mark in the call) by which the run can end other than succeeded or
\* failed; a stop() that changes nothing cannot change how the run ends
C34_StopWhileStartingKept ==
  [][\A p \in Projects :
       (lastEvent'.op = "stop" /\ lastEvent'.project = p
          /\ StatusOf(states, p) = "starting" /\ StartCalls(p) # {}
          /\ ~processesHas(processes, p))
         => <<states', processes', procs', calls'>> # <<states, processes, procs, calls>>
    ]_vars

\* C35: when loadPersistedStates() returns, every project of its list that
\* has a registered RunProcess has the status and the tabId it had before the
\* return, also when a start() of the project began or completed while the
\* load was reading the rows
C35_LoadKeepsRunning ==
  [][lastEvent'.op = "loadPersistedStates" =>
       \A p \in DOMAIN states \cap lastEvent'.projects :
         processesHas(processes, p) =>
           /\ Has(states', p)
           /\ states'[p].status = states[p].status
           /\ states'[p].tabId = states[p].tabId]_vars

\* C36: every tabId of a RunState, and the tabId of the pending failure
\* notification, is the id of a tab that is in the session registry and
\* belongs to the same project
C36_TabIdsRegistered ==
  /\ \A p \in DOMAIN states : \A t \in states[p].tabId :
       Has(tabMap, t) /\ tabMap[t].projectId = p
  /\ \A n \in toast :
       Has(tabMap, n.tabId) /\ tabMap[n.tabId].projectId = n.projectId

\* C37: a step of loadPersistedStates() or syncProjects() leaves the
\* RunProcess registry, the session registry and every process as they were,
\* also when it drops a project whose run is in progress
C37_PureReconciliation ==
  [][(\/ lastEvent'.op \in {"syncProjects", "loadPersistedStates"}
      \/ \E c \in DOMAIN calls' : calls'[c].kind = "load" /\ Made(c))
       => UNCHANGED <<processes, tabMap, procs, toast>>]_vars

\* a sync has dropped a project whose run is in progress: its RunProcess,
\* its session and its process are still there
C37_Witness ==
  /\ lastEvent.op = "syncProjects"
  /\ ~Has(states, "p1")
  /\ processesHas(processes, "p1")
  /\ Has(tabMap, processesGet(processes, "p1").tabId)
  /\ procs[processesGet(processes, "p1").tabId].alive

\* the spawn factory of the createRunTab of start() call c throws in this
\* step: the PTY spawn, or the subprocess spawn of the fallback
RunSpawnThrows(c) ==
  /\ Has(calls, c) /\ calls[c].kind = "start" /\ Acts(c)
  /\ \/ calls[c].pc = "saveStarting" /\ Has(calls', c) /\ calls'[c].pc = "shellSpawn"
     \/ calls[c].pc = "shellSpawn" /\ ~Has(calls', c)
          /\ lastEvent' = Event("start", calls[c].project, "SpawnFailed")

\* C38: when the spawn factory of createTab or of createRunTab throws, the
\* exception leaves the registry's function (createTab rejects; start()
\* catches the first and rejects with the second), no tab is added to the
\* registry and no process is spawned in that step: the registry makes no
\* second attempt of its own
C38_SpawnFailurePropagates ==
  [][/\ \A c \in DOMAIN calls :
          (calls[c].kind = "createTab" /\ Acts(c)
             /\ lastEvent' = Event("createTab", calls[c].project, "SpawnFailed"))
            => /\ ~Has(calls', c)
               /\ UNCHANGED <<tabMap, procs>>
     /\ \A c \in DOMAIN calls :
          RunSpawnThrows(c) => UNCHANGED <<tabMap, procs>>
     /\ \A p \in Projects :
          lastEvent' = Event("createTab", p, "returned")
            => \E t \in DOMAIN tabMap' \ DOMAIN tabMap :
                 tabMap'[t].projectId = p /\ tabMap'[t].kind = "shell"]_vars

\* createTab has rejected with the failure of its spawn while another tab
\* of the project is open
C38_Witness ==
  /\ lastEvent = Event("createTab", "p1", "SpawnFailed")
  /\ countProjectTabs(tabMap, "p1") = 1
  /\ calls = EmptyMap

\* C40: the titles of the interactive tabs of one project that are in the
\* registry are pairwise distinct
C40_DistinctTitles ==
  \A t \in DOMAIN tabMap : \A u \in DOMAIN tabMap \ {t} :
    (tabMap[t].projectId = tabMap[u].projectId
       /\ tabMap[t].kind = "shell" /\ tabMap[u].kind = "shell")
      => tabMap[t].title # tabMap[u].title

\* the spawn attempts a start() call can have made: none yet, the PTY, or
\* the PTY and then the subprocess
SpawnAttempts == {<<>>, <<"pty">>, <<"pty", "shell">>}

\* C39: within one start() call the PTY spawn is attempted first and once,
\* the subprocess spawn only after the PTY attempt threw and at most once,
\* there are never more than two attempts, and a second attempt that fails
\* makes start() reject
C39_SpawnAtMostTwice ==
  [][\A c \in CallIds :
       /\ (Has(calls', c) /\ calls'[c].kind = "start")
            => /\ calls'[c].spawns \in SpawnAttempts
               /\ (calls'[c].pc = "saveRunning" => calls'[c].spawns # <<>>)
       /\ (Has(calls, c) /\ calls[c].kind = "start" /\ Acts(c))
            => /\ (Has(calls', c) /\ calls'[c].spawns # calls[c].spawns)
                    => \/ /\ calls[c].spawns = <<>>
                          /\ calls'[c].spawns = <<"pty">>
                       \/ /\ calls[c].spawns = <<"pty">>
                          /\ calls[c].fallback /\ calls[c].tab = None
                          /\ calls'[c].spawns = <<"pty", "shell">>
               /\ (Has(calls', c) /\ calls'[c].tab # calls[c].tab)
                    => /\ calls'[c].spawns # calls[c].spawns
                       /\ LET t == Get(calls'[c].tab)
                          IN /\ ~Has(procs, t) /\ Has(procs', t)
                             /\ procs'[t].backend
                                  = calls'[c].spawns[Len(calls'[c].spawns)]
               /\ (calls[c].pc = "shellSpawn" /\ procs' = procs)
                    => /\ ~Has(calls', c)
                       /\ lastEvent' = Event("start", calls[c].project, "SpawnFailed")
    ]_vars

\* both spawn attempts of a start() have failed and the call has rejected
C39_Witness ==
  /\ lastEvent = Event("start", "p1", "SpawnFailed")
  /\ StartCalls("p1") = {}
  /\ StatusOf(states, "p1") = "starting"
====
